---------------------------- MODULE Spec2Model ----------------------------
(***************************************************************************)
(* Model of the layout scripts gds.py and test.py.                         *)
(*                                                                         *)
(* Lengths are integers in thousandths of the scripts' length unit         *)
(* (0.515 is 515, the sweep step 0.015 is 15).  Coordinates of attachment  *)
(* points (ports) are stored DOUBLED, so that the scripts' halvings        *)
(* (centres of rectangles, (total_length - total_crystal_length)/2) stay   *)
(* integers.  Python objects live in `heap`; a variable of the script      *)
(* holds an address, so that aliasing and copying are what the code does.  *)
(***************************************************************************)
EXTENDS Integers, Sequences, FiniteSets, TLC

VARIABLES
    script,         \* which entry point runs: "main", "call" (gds.py), "test" (test.py)
    pc,             \* position in the running script
    err,            \* the exception that ended the script, or "none"
    heap,           \* DeviceParameters objects by address; address 1 is the base record
    constructed,    \* the base record exactly as its constructor built it
    main_i,         \* main: column index i
    main_j,         \* main: row index j
    gw,             \* generate_waveguides: its frame (arguments and locals)
    params_i,       \* address returned by the last device_parameters_factory call, 0 if none
    device,         \* the Device returned by the last generate_device call
    layout,         \* main: the cells added to layout so far
    gds_written,    \* whether layout.write_gds("out.gds") has run
    factory_calls,  \* number of device_parameters_factory calls made so far
    targs,          \* test.py: arguments of photonic_crystal_electrodes
    t_i,            \* test.py: loop index i of photonic_crystal
    chain,          \* test.py: the references added to the photonic crystal, in order
    crystal_length  \* test.py: the derived crystal_length, -1 before it is computed

vars == <<script, pc, err, heap, constructed, main_i, main_j, gw, params_i, device,
          layout, gds_written, factory_calls, targs, t_i, chain, crystal_length>>

---------------------------------------------------------------------------
(* Bounds of the inputs explored. *)

MaxDeviceCount == 4
MaxCrystalCount == 3
MaxLen == 2

(* Literals of the scripts. *)

main_total_length == 40000
main_crystal_length == 630
main_crystal_width == 770
main_crystal_count == 5
main_lattice_constant == 920
main_bridge_width == 225
main_defect_width == 900
main_defect_length == 515
main_outline_width == 300
main_electrode_overlap == 100
main_external_electrode_width == 1920
main_external_electrode_skew == 5000
default_crystal_layer == 8
default_outline_layer == 3
default_electrode_layer == 1
SweepStep == 15
main_columns_range == 8
main_rows_range == 8
main_device_count == 10
main_device_spacing == 20000
main_gap_spacing == 25000
main_layer == 2

FieldNames ==
    {"total_length", "crystal_length", "crystal_width", "bridge_width",
     "defect_length", "defect_width", "lattice_constant", "crystal_count",
     "outline_width", "electrode_overlap", "external_electrode_width",
     "external_electrode_skew", "crystal_layer", "outline_layer",
     "electrode_layer", "shorted", "unetched", "off_defect"}

(* The record main constructs; the three flags default to False, which is 0. *)
DeviceParameters ==
    [total_length |-> main_total_length,
     crystal_length |-> main_crystal_length,
     crystal_width |-> main_crystal_width,
     bridge_width |-> main_bridge_width,
     defect_length |-> main_defect_length,
     defect_width |-> main_defect_width,
     lattice_constant |-> main_lattice_constant,
     crystal_count |-> main_crystal_count,
     outline_width |-> main_outline_width,
     electrode_overlap |-> main_electrode_overlap,
     external_electrode_width |-> main_external_electrode_width,
     external_electrode_skew |-> main_external_electrode_skew,
     crystal_layer |-> default_crystal_layer,
     outline_layer |-> default_outline_layer,
     electrode_layer |-> default_electrode_layer,
     shorted |-> 0,
     unetched |-> 0,
     off_defect |-> 0]

(* Mutant: the length of one crystal taken for the lattice period. *)
half_crystal_length_by_crystal(p) == p.crystal_length * p.crystal_count

(* Python truth value of a flag (main stores the integers 0 and 1). *)
Truthy(v) == v # 0

half_crystal_length(p) == p.lattice_constant * p.crystal_count

total_crystal_length(p) == half_crystal_length(p) * 2 + p.defect_length

(* math.ceil(n/2) and math.floor(n/2) for n >= 0. *)
ceil_half(n) == (n + 1) \div 2

floor_half(n) == n \div 2

---------------------------------------------------------------------------
(* The layout library's port arithmetic, on doubled coordinates.  A port   *)
(* is [x, y, o]: its midpoint and its orientation in degrees.              *)

NormAngle(a) == a % 360

(* Rotation of the point (x, y) by a multiple of 90 degrees about (cx, cy). *)
RotatePoint(x, y, a, cx, cy) ==
    LET dx == x - cx
        dy == y - cy
        n == NormAngle(a)
    IN  CASE n = 0 -> <<x, y>>
          [] n = 90 -> <<cx - dy, cy + dx>>
          [] n = 180 -> <<cx - dx, cy - dy>>
          [] n = 270 -> <<cx + dy, cy - dx>>

Cos(a) == CASE NormAngle(a) = 0 -> 1 [] NormAngle(a) = 180 -> -1 [] OTHER -> 0

Sin(a) == CASE NormAngle(a) = 90 -> 1 [] NormAngle(a) = 270 -> -1 [] OTHER -> 0

(* pg.straight(size=(width, length)): port "1" on top, port "2" at the bottom. *)
straight(width, length) ==
    [n \in {"1", "2"} |->
        IF n = "1" THEN [x |-> width, y |-> 2 * length, o |-> 90]
                   ELSE [x |-> width, y |-> 0, o |-> 270]]

move(ports, dx, dy) ==
    [n \in DOMAIN ports |-> [ports[n] EXCEPT !.x = @ + dx, !.y = @ + dy]]

rotate(ports, a, cx, cy) ==
    [n \in DOMAIN ports |->
        LET q == RotatePoint(ports[n].x, ports[n].y, a, cx, cy)
        IN  [x |-> q[1], y |-> q[2], o |-> NormAngle(ports[n].o + a)]]

(* DeviceReference.connect(port, destination, overlap): turn the reference *)
(* to face the destination, put the port on it, then back off by overlap.  *)
connect(ports, name, dest, overlap2) ==
    LET p == ports[name]
        turned == rotate(ports, 180 + dest.o - p.o, p.x, p.y)
        placed == move(turned, dest.x - p.x, dest.y - p.y)
    IN  move(placed, -overlap2 * Cos(dest.o), -overlap2 * Sin(dest.o))

(* A pg.straight moved so that its centre is at (0, 0), then rotated by 90. *)
centred_rotated(width, length) ==
    rotate(move(straight(width, length), -width, -length), 90, 0, 0)

---------------------------------------------------------------------------
(* gds.py: generate_device *)

NoDevice == [built |-> FALSE]

(* Mutant: the assertion is missing. *)
assert_missing(crystal_count) == TRUE

(* The assertion of generate_device and of photonic_crystal_electrodes. *)
assert_odd(crystal_count) == crystal_count % 2 = 1

(* Doubled (total_length - total_crystal_length)/2. *)
external_electrode_length2(p) == p.total_length - total_crystal_length(p)

(* Ports "1" and "2" of the device: the outer ends of the two half crystals *)
(* connected to the two ends of the defect.                                 *)
device_inner_ports(p) ==
    LET half_crystal == centred_rotated(p.bridge_width, half_crystal_length(p))
        defect == centred_rotated(p.defect_width, p.defect_length)
        left_half == connect(half_crystal, "1", defect["2"], 0)
        right_half == connect(half_crystal, "2", defect["1"], 0)
    IN  [n \in {"1", "2"} |-> IF n = "2" THEN left_half["2"] ELSE right_half["1"]]

(* Mutant: both connectors are placed on the same side of their port. *)
external_connector_same_sign(p, inner, i) ==
    LET at == inner[IF i = 1 THEN "1" ELSE "2"]
        x == at.x + external_electrode_length2(p)
        y == at.y + (-2 * p.external_electrode_skew)
    IN  [n \in {"1", "2"} |-> [x |-> x, y |-> y, o |-> IF n = "1" THEN 0 ELSE 180]]

(* Midpoint of the connector placed for device port i (1 or 2): both ports *)
(* of a pg.connector sit on its midpoint, port 1 facing 0 and port 2 180.  *)
external_connector(p, inner, i) ==
    LET at == inner[IF i = 1 THEN "1" ELSE "2"]
        x == at.x + external_electrode_length2(p) * (IF i = 2 THEN 1 ELSE -1)
        y == at.y + (-2 * p.external_electrode_skew)
    IN  [n \in {"1", "2"} |-> [x |-> x, y |-> y, o |-> IF n = "1" THEN 0 ELSE 180]]

(* The connector port used for device port i: ports[i%2+1]. *)
connector_port(i) == IF (i % 2) + 1 = 1 THEN "1" ELSE "2"

generate_device(p) ==
    LET inner == device_inner_ports(p)
        west == external_connector(p, inner, 1)[connector_port(1)]
        east == external_connector(p, inner, 2)[connector_port(2)]
    IN  [built |-> TRUE,
         ports |-> [n \in {"1", "2", "W", "E"} |->
                       CASE n = "W" -> west
                         [] n = "E" -> east
                         [] OTHER -> inner[n]],
         bridge_length |-> half_crystal_length(p),
         internal_electrode_length |-> total_crystal_length(p),
         electrode_gap_width |->
             p.defect_length - (IF ~Truthy(p.off_defect) THEN p.electrode_overlap * 2 ELSE 0),
         gap_cut |-> ~Truthy(p.shorted),
         outlined |-> ~Truthy(p.unetched),
         defect_length |-> p.defect_length]

---------------------------------------------------------------------------
(* gds.py: main.device_parameters_factory *)

(* Mutant: no copy is made, the factory works on the source object. *)
copy_alias(h, o) == [heap |-> h, ret |-> o]

(* copy.copy: a new object with the same field values, at a new address. *)
copy_copy(h, o) == [heap |-> Append(h, h[o]), ret |-> Len(h) + 1]

(* Mutant: the copy is made, but the increment lands on the source. *)
device_parameters_factory_on_source(h, device_parameters_o, i) ==
    LET c == copy_copy(h, device_parameters_o)
    IN  [heap |-> [c.heap EXCEPT ![device_parameters_o].defect_length = @ + i * SweepStep],
         ret |-> c.ret]

device_parameters_factory(h, device_parameters_o, i) ==
    LET c == copy_copy(h, device_parameters_o)
    IN  [heap |-> [c.heap EXCEPT ![c.ret].defect_length = @ + i * SweepStep],
         ret |-> c.ret]

---------------------------------------------------------------------------
(* gds.py: generate_waveguides *)

NoFrame == [active |-> FALSE]

(* Names of the ports pg.compass_multi creates for {"N": 1, "E": h, "W": h}. *)
compass_multi_ports(half_device_count) ==
    {<<"N", 1>>} \cup ({"E", "W"} \X (1 .. half_device_count))

(* Number of loop rounds on a side: ceil(n/2) west, floor(n/2) east. *)
side_rounds(side, device_count) ==
    IF side = "W" THEN ceil_half(device_count) ELSE floor_half(device_count)

(* The index handed to the factory in round i of a side. *)
factory_index(side, device_count, i) ==
    IF side = "W" THEN i ELSE i + ceil_half(device_count)

(* The centre-electrode port looked up in round i of a side. *)
centre_port(side, half_device_count, i) == <<side, half_device_count - i>>

(* Mutant: the separator is never added. *)
label_text_no_separator(p) ==
    LET t1 == IF Truthy(p.shorted) THEN "shorted" ELSE ""
        t2 == IF Truthy(p.unetched) THEN t1 \o "unetched" ELSE t1
        t3 == IF Truthy(p.off_defect) THEN t2 \o "off_defect" ELSE t2
    IN  IF t3 = "" THEN "on_defect" ELSE t3

(* The label text of a cell, built as lines 204-214 build it. *)
label_text(p) ==
    LET t0 == ""
        t1 == IF Truthy(p.shorted) THEN t0 \o "shorted" ELSE t0
        t2 == IF Truthy(p.unetched)
              THEN (IF t1 # "" THEN t1 \o "," ELSE t1) \o "unetched"
              ELSE t1
        t3 == IF Truthy(p.off_defect)
              THEN (IF t2 # "" THEN t2 \o "," ELSE t2) \o "off_defect"
              ELSE t2
    IN  IF t3 = "" THEN "on_defect" ELSE t3

Fail(e) ==
    /\ pc' = "failed"
    /\ err' = e

(* Lines 160-165: the frame's locals and the centre electrode.  Asked for   *)
(* zero ports on a side, the library either divides by that zero or makes  *)
(* no port there, depending on its version: both outcomes are kept.        *)
GwStart ==
    /\ pc = "gw_start"
    /\ \E zero_ports_raise \in BOOLEAN :
       LET h == floor_half(gw.device_count)
       IN  IF h = 0 /\ zero_ports_raise
           THEN /\ Fail("ZeroDivisionError")
                /\ UNCHANGED gw
           ELSE /\ gw' = [gw EXCEPT !.half_device_count = h,
                                    !.electrode_height = ceil_half(gw.device_count) * gw.device_spacing,
                                    !.ports = compass_multi_ports(h),
                                    !.side = "W",
                                    !.i = 0]
                /\ pc' = "gw_loop"
                /\ UNCHANGED err
    /\ UNCHANGED <<script, heap, constructed, main_i, main_j, params_i, device, layout,
                   gds_written, factory_calls, targs, t_i, chain, crystal_length>>

(* Lines 167-168 and 171-172: the loop heads and the factory call. *)
GwFactory ==
    /\ pc = "gw_loop"
    /\ gw.i < side_rounds(gw.side, gw.device_count)
    /\ LET r == device_parameters_factory(heap, gw.device_parameters,
                                          factory_index(gw.side, gw.device_count, gw.i))
       IN  /\ heap' = r.heap
           /\ params_i' = r.ret
    /\ factory_calls' = factory_calls + 1
    /\ pc' = "gw_gen"
    /\ UNCHANGED <<script, err, constructed, main_i, main_j, gw, device, layout,
                   gds_written, targs, t_i, chain, crystal_length>>

(* Lines 54-122: generate_device on the factory's record. *)
GenerateDevice ==
    /\ pc = "gw_gen"
    /\ IF assert_odd(heap[params_i].crystal_count)
       THEN /\ device' = generate_device(heap[params_i])
            /\ pc' = "gw_connect"
            /\ UNCHANGED err
       ELSE /\ Fail("AssertionError")
            /\ UNCHANGED device
    /\ UNCHANGED <<script, heap, constructed, main_i, main_j, gw, params_i, layout,
                   gds_written, factory_calls, targs, t_i, chain, crystal_length>>

(* Lines 168-169 and 172-173: add_ref, the port lookup and connect.  The   *)
(* factory's record is dropped when the round ends.                        *)
GwConnect ==
    /\ pc = "gw_connect"
    /\ LET port == centre_port(gw.side, gw.half_device_count, gw.i)
       IN  IF port \in gw.ports
           THEN /\ gw' = [gw EXCEPT !.placed = Append(@,
                              [side |-> gw.side,
                               index |-> factory_index(gw.side, gw.device_count, gw.i),
                               own_port |-> IF gw.side = "W" THEN "E" ELSE "W",
                               port |-> port,
                               defect_length |-> device.defect_length]),
                                    !.i = @ + 1]
                /\ pc' = "gw_loop"
                /\ UNCHANGED err
           ELSE /\ Fail("KeyError")
                /\ UNCHANGED gw
    /\ heap' = SubSeq(heap, 1, 1)
    /\ params_i' = 0
    /\ UNCHANGED <<script, constructed, main_i, main_j, device, layout,
                   gds_written, factory_calls, targs, t_i, chain, crystal_length>>

(* The west loop is over: the east loop starts. *)
GwWestDone ==
    /\ pc = "gw_loop"
    /\ gw.side = "W"
    /\ gw.i >= side_rounds("W", gw.device_count)
    /\ gw' = [gw EXCEPT !.side = "E", !.i = 0]
    /\ UNCHANGED <<script, pc, err, heap, constructed, main_i, main_j, params_i, device,
                   layout, gds_written, factory_calls, targs, t_i, chain, crystal_length>>

(* Lines 176-199: the side electrodes are attached at W1 and E1, then the  *)
(* pads and routes are added.                                              *)
GwSideElectrodes ==
    /\ pc = "gw_loop"
    /\ gw.side = "E"
    /\ gw.i >= side_rounds("E", gw.device_count)
    /\ IF {<<"W", 1>>, <<"E", 1>>, <<"N", 1>>} \subseteq gw.ports
       THEN /\ pc' = "gw_label"
            /\ UNCHANGED err
       ELSE Fail("KeyError")
    /\ UNCHANGED <<script, heap, constructed, main_i, main_j, gw, params_i, device,
                   layout, gds_written, factory_calls, targs, t_i, chain, crystal_length>>

(* Lines 204-225: the label, the coordinate text, the return. *)
GwLabel ==
    /\ pc = "gw_label"
    /\ gw' = [gw EXCEPT !.label_text = label_text(heap[gw.device_parameters])]
    /\ pc' = "gw_return"
    /\ UNCHANGED <<script, err, heap, constructed, main_i, main_j, params_i, device,
                   layout, gds_written, factory_calls, targs, t_i, chain, crystal_length>>

(* The arguments generate_waveguides is called with. *)
Frame(device_count, device_spacing, gap_spacing, device_parameters, layer, coordinates) ==
    [active |-> TRUE,
     device_count |-> device_count,
     device_spacing |-> device_spacing,
     gap_spacing |-> gap_spacing,
     device_parameters |-> device_parameters,
     layer |-> layer,
     coordinates |-> coordinates,
     half_device_count |-> 0,
     electrode_height |-> 0,
     ports |-> {},
     side |-> "W",
     i |-> 0,
     placed |-> <<>>,
     label_text |-> ""]

---------------------------------------------------------------------------
(* gds.py: main *)

base == 1

(* normal, off_defect, shorted, unetched: (shorted, unetched, off_defect). *)
columns == <<<<0, 0, 0>>, <<0, 0, 1>>, <<1, 0, 0>>, <<1, 1, 0>>>>

(* columns[floor(i/2)], with Python's 0-based index. *)
column_flags(i) == columns[floor_half(i) + 1]

(* Line 258: the three flags are assigned on the base record itself. *)
assign_flags(h, o, c) ==
    [h EXCEPT ![o].shorted = c[1], ![o].unetched = c[2], ![o].off_defect = c[3]]

(* Line 269: where the cell is moved to. *)
cell_destination(i, j) == <<600000 * i, 1000000 * j + (i % 2) * 500000>>

MainColumn ==
    /\ script = "main"
    /\ pc = "main_col"
    /\ main_i < main_columns_range
    /\ heap' = assign_flags(heap, base, column_flags(main_i))
    /\ main_j' = 0
    /\ pc' = "main_row"
    /\ UNCHANGED <<script, err, constructed, main_i, gw, params_i, device, layout,
                   gds_written, factory_calls, targs, t_i, chain, crystal_length>>

(* Lines 259-268: the call of generate_waveguides for cell (i, j). *)
MainRow ==
    /\ script = "main"
    /\ pc = "main_row"
    /\ main_j < main_rows_range
    /\ gw' = Frame(main_device_count, main_device_spacing, main_gap_spacing, base,
                   main_layer, <<main_i, main_j>>)
    /\ pc' = "gw_start"
    /\ UNCHANGED <<script, err, heap, constructed, main_i, main_j, params_i, device,
                   layout, gds_written, factory_calls, targs, t_i, chain, crystal_length>>

(* Lines 260 and 269: the returned cell is added to the layout and moved. *)
MainAddCell ==
    /\ script = "main"
    /\ pc = "gw_return"
    /\ layout' = Append(layout,
                        [coordinates |-> gw.coordinates,
                         label_text |-> gw.label_text,
                         devices |-> gw.placed,
                         destination |-> cell_destination(main_i, main_j)])
    /\ main_j' = main_j + 1
    /\ gw' = NoFrame
    /\ pc' = "main_row"
    /\ UNCHANGED <<script, err, heap, constructed, main_i, params_i, device,
                   gds_written, factory_calls, targs, t_i, chain, crystal_length>>

MainRowsDone ==
    /\ script = "main"
    /\ pc = "main_row"
    /\ main_j >= main_rows_range
    /\ main_i' = main_i + 1
    /\ pc' = "main_col"
    /\ UNCHANGED <<script, err, heap, constructed, main_j, gw, params_i, device, layout,
                   gds_written, factory_calls, targs, t_i, chain, crystal_length>>

(* Line 273: layout.write_gds("out.gds"). *)
MainWrite ==
    /\ script = "main"
    /\ pc = "main_col"
    /\ main_i >= main_columns_range
    /\ gds_written' = TRUE
    /\ pc' = "done"
    /\ UNCHANGED <<script, err, heap, constructed, main_i, main_j, gw, params_i, device,
                   layout, factory_calls, targs, t_i, chain, crystal_length>>

(* A direct call of generate_waveguides returns to its caller. *)
CallReturn ==
    /\ script = "call"
    /\ pc = "gw_return"
    /\ pc' = "done"
    /\ UNCHANGED <<script, err, heap, constructed, main_i, main_j, gw, params_i, device,
                   layout, gds_written, factory_calls, targs, t_i, chain, crystal_length>>

---------------------------------------------------------------------------
(* test.py *)

NoArgs == [active |-> FALSE]

(* The arguments of the call at the end of test.py. *)
test_arguments ==
    [active |-> TRUE,
     total_length |-> 200,
     crystal_width |-> 5,
     crystal_height |-> 5,
     bridge_width |-> 2,
     bridge_length |-> 2,
     crystal_count |-> 9,
     defect_width |-> 4,
     defect_height |-> 7,
     outline_width |-> 3,
     electrode_overlap |-> 1,
     external_electrode_width |-> 10,
     external_electrode_skew |-> 10]

(* Mutant: the defect test is off by one. *)
segment_kind_off_by_one(i, crystal_count) ==
    IF i % 2 = 1 THEN "bridge"
    ELSE IF i = crystal_count THEN "defect"
    ELSE "crystal"

(* Lines 30-35: what round i of the loop adds. *)
segment_kind(i, crystal_count) ==
    IF i % 2 = 1 THEN "bridge"
    ELSE IF i = crystal_count - 1 THEN "defect"
    ELSE "crystal"

(* Lines 21-23: the three pg.straight templates, size = (width, length). *)
segment(kind, a) ==
    CASE kind = "bridge" -> straight(a.bridge_width, a.bridge_length)
      [] kind = "defect" -> straight(a.defect_height, a.defect_width)
      [] kind = "crystal" -> straight(a.crystal_height, a.crystal_width)

(* Line 75. *)
derived_crystal_length(a) ==
    a.bridge_length * (a.crystal_count + 1) + a.crystal_width * (a.crystal_count - 1)
        + a.defect_width

(* Line 62. *)
TAssert ==
    /\ script = "test"
    /\ pc = "t_assert"
    /\ IF assert_odd(targs.crystal_count)
       THEN /\ pc' = "t_origin"
            /\ UNCHANGED err
       ELSE Fail("AssertionError")
    /\ UNCHANGED <<script, heap, constructed, main_i, main_j, gw, params_i, device, layout,
                   gds_written, factory_calls, targs, t_i, chain, crystal_length>>

(* Lines 19-28: the first bridge, whose port 1 is the crystal's port 1. *)
TOrigin ==
    /\ script = "test"
    /\ pc = "t_origin"
    /\ chain' = <<[kind |-> "bridge", ports |-> segment("bridge", targs)]>>
    /\ t_i' = 0
    /\ pc' = "t_loop"
    /\ UNCHANGED <<script, err, heap, constructed, main_i, main_j, gw, params_i, device,
                   layout, gds_written, factory_calls, targs, crystal_length>>

(* Lines 29-37: one round: the next reference, connected to the previous one. *)
TNext ==
    /\ script = "test"
    /\ pc = "t_loop"
    /\ t_i < targs.crystal_count * 2
    /\ LET kind == segment_kind(t_i, targs.crystal_count)
           prev == chain[Len(chain)]
       IN  chain' = Append(chain,
                           [kind |-> kind,
                            ports |-> connect(segment(kind, targs), "1", prev.ports["2"], 0)])
    /\ t_i' = t_i + 1
    /\ UNCHANGED <<script, pc, err, heap, constructed, main_i, main_j, gw, params_i, device,
                   layout, gds_written, factory_calls, targs, crystal_length>>

(* Lines 38-43: port 2 is the last reference's port 2; the crystal is returned. *)
TLoopDone ==
    /\ script = "test"
    /\ pc = "t_loop"
    /\ t_i >= targs.crystal_count * 2
    /\ pc' = "t_length"
    /\ UNCHANGED <<script, err, heap, constructed, main_i, main_j, gw, params_i, device,
                   layout, gds_written, factory_calls, targs, t_i, chain, crystal_length>>

(* Lines 75-97: the derived length; the electrodes are built from it. *)
TCrystalLength ==
    /\ script = "test"
    /\ pc = "t_length"
    /\ crystal_length' = derived_crystal_length(targs)
    /\ pc' = "done"
    /\ UNCHANGED <<script, err, heap, constructed, main_i, main_j, gw, params_i, device,
                   layout, gds_written, factory_calls, targs, t_i, chain>>

---------------------------------------------------------------------------
(* The inputs explored. *)

Lengths == 1 .. MaxLen

CrystalCounts == 1 .. MaxCrystalCount

(* main's literals, with crystal_count also ranging over small values. *)
MainRecords ==
    {[DeviceParameters EXCEPT !.crystal_count = c] :
        c \in CrystalCounts \cup {main_crystal_count}}

(* Records handed to generate_waveguides directly. *)
CallRecords ==
    {[DeviceParameters EXCEPT !.crystal_count = c,
                              !.lattice_constant = l,
                              !.defect_length = d,
                              !.total_length = t,
                              !.shorted = f[1],
                              !.unetched = f[2],
                              !.off_defect = f[3]] :
        c \in CrystalCounts, l \in Lengths, d \in Lengths,
        t \in {MaxLen, main_total_length}, f \in {0, 1} \X {0, 1} \X {0, 1}}

TestArguments ==
    {test_arguments} \cup
    {[test_arguments EXCEPT !.crystal_count = c,
                            !.bridge_length = b,
                            !.crystal_width = w,
                            !.defect_width = d] :
        c \in CrystalCounts, b \in Lengths, w \in Lengths, d \in Lengths}

InitCommon ==
    /\ err = "none"
    /\ main_i = 0
    /\ main_j = 0
    /\ params_i = 0
    /\ device = NoDevice
    /\ layout = <<>>
    /\ gds_written = FALSE
    /\ factory_calls = 0
    /\ t_i = 0
    /\ chain = <<>>
    /\ crystal_length = -1

InitMain ==
    /\ script = "main"
    /\ pc = "main_col"
    /\ \E p \in MainRecords : heap = <<p>> /\ constructed = p
    /\ gw = NoFrame
    /\ targs = NoArgs

InitCall ==
    /\ script = "call"
    /\ pc = "gw_start"
    /\ \E p \in CallRecords : heap = <<p>> /\ constructed = p
    /\ \E n \in 1 .. MaxDeviceCount :
          gw = Frame(n, main_device_spacing, main_gap_spacing, base, main_layer, <<0, 0>>)
    /\ targs = NoArgs

InitTest ==
    /\ script = "test"
    /\ pc = "t_assert"
    /\ heap = <<>>
    /\ constructed = NoArgs
    /\ gw = NoFrame
    /\ targs \in TestArguments

Init == InitCommon /\ (InitMain \/ InitCall \/ InitTest)

Next ==
    \/ MainColumn
    \/ MainRow
    \/ MainAddCell
    \/ MainRowsDone
    \/ MainWrite
    \/ CallReturn
    \/ GwStart
    \/ GwFactory
    \/ GenerateDevice
    \/ GwConnect
    \/ GwWestDone
    \/ GwSideElectrodes
    \/ GwLabel
    \/ TAssert
    \/ TOrigin
    \/ TNext
    \/ TLoopDone
    \/ TCrystalLength

Spec == Init /\ [][Next]_vars

---------------------------------------------------------------------------
(* Properties *)

IsGds == script \in {"main", "call"}

Flags(p) == <<p.shorted, p.unetched, p.off_defect>>

(* The step in which generate_device returns a device. *)
DeviceBuiltStep == pc = "gw_gen" /\ pc' = "gw_connect"

(* The step in which device_parameters_factory is called and returns. *)
FactoryStep == pc = "gw_loop" /\ pc' = "gw_gen"

(* C1: half_crystal_length() is lattice_constant * crystal_count and        *)
(* total_crystal_length() is 2 * half_crystal_length() + defect_length;     *)
(* both depend only on lattice_constant, crystal_count and defect_length,   *)
(* and the calls (made while a device is generated) change no field of the  *)
(* record.                                                                  *)
C1_DerivedLengths ==
    [][DeviceBuiltStep =>
        LET p == heap[params_i]
            half == p.lattice_constant * p.crystal_count
        IN  /\ device'.bridge_length = half
            /\ device'.internal_electrode_length = 2 * half + p.defect_length
            /\ half_crystal_length(p) = half
            /\ total_crystal_length(p) = 2 * half + p.defect_length
            /\ \A f \in FieldNames \ {"lattice_constant", "crystal_count", "defect_length"} :
                  \A v \in {0, 1, p[f] + 1} :
                      /\ half_crystal_length([p EXCEPT ![f] = v]) = half
                      /\ total_crystal_length([p EXCEPT ![f] = v]) = 2 * half + p.defect_length
            /\ heap' = heap
            /\ params_i' = params_i]_vars

C1_Witness ==
    /\ pc = "gw_connect"
    /\ device.built
    /\ device.bridge_length = 2 * 3
    /\ device.internal_electrode_length = 2 * (2 * 3) + 1

(* C2: for an even crystal_count generate_device and                        *)
(* photonic_crystal_electrodes end on the assertion before building         *)
(* anything and return no device, and a run of main on such a record never  *)
(* writes out.gds; for an odd crystal_count the assertion passes.           *)
C2_OddCountEnforced ==
    /\ IsGds =>
          /\ device.built => constructed.crystal_count % 2 = 1
          /\ pc \in {"gw_connect", "gw_label", "gw_return"} => constructed.crystal_count % 2 = 1
          /\ err = "AssertionError" =>
                /\ constructed.crystal_count % 2 = 0
                /\ pc = "failed"
                /\ ~device.built
                /\ gw.placed = <<>>
          /\ constructed.crystal_count % 2 = 1 => err # "AssertionError"
    /\ script = "main" /\ constructed.crystal_count % 2 = 0 =>
          /\ ~gds_written
          /\ layout = <<>>
          /\ pc # "done"
          /\ pc = "failed" => err = "AssertionError" /\ factory_calls = 1
    /\ script = "test" =>
          /\ pc \in {"t_origin", "t_loop", "t_length", "done"} => targs.crystal_count % 2 = 1
          /\ targs.crystal_count % 2 = 0 => chain = <<>> /\ crystal_length = -1
          /\ pc = "failed" <=> err = "AssertionError"
          /\ err = "AssertionError" => targs.crystal_count % 2 = 0
          /\ targs.crystal_count % 2 = 1 => err = "none"

C2_Witness ==
    /\ script = "main"
    /\ constructed.crystal_count % 2 = 0
    /\ pc = "failed"
    /\ err = "AssertionError"
    /\ ~gds_written

(* C3: device_parameters_factory(p, i) returns a new record whose           *)
(* defect_length is p.defect_length + i*0.015 and whose other fields are    *)
(* p's, and leaves p, defect_length included, as it was.                    *)
C3_FactoryCopies ==
    [][FactoryStep =>
        LET o == gw.device_parameters
            i == factory_index(gw.side, gw.device_count, gw.i)
        IN  /\ params_i' \notin DOMAIN heap
            /\ params_i' \in DOMAIN heap'
            /\ heap'[params_i'].defect_length = heap[o].defect_length + i * 15
            /\ \A f \in FieldNames \ {"defect_length"} : heap'[params_i'][f] = heap[o][f]
            /\ \A a \in DOMAIN heap : heap'[a] = heap[a]]_vars

C3_Witness ==
    /\ pc = "gw_gen"
    /\ gw.side = "E"
    /\ gw.i > 0
    /\ params_i # base
    /\ heap[params_i].defect_length = heap[base].defect_length + 3 * 15
    /\ Truthy(heap[params_i].shorted)

(* C4, as claimed: throughout a run of main the base record keeps exactly   *)
(* the field values it was constructed with.                                *)
C4_BaseKeepsConstructedValues ==
    script = "main" => heap[base] = constructed

(* C4, amended: the base record keeps the constructed value of every field  *)
(* but shorted, unetched and off_defect; main assigns those three on the    *)
(* base record itself at the head of each column (to columns[floor(i/2)]),  *)
(* and nothing else modifies the base record: a direct call of              *)
(* generate_waveguides leaves the record it is given as it was.             *)
C4_OnlyMainReassignsFlags ==
    IsGds =>
        /\ \A f \in FieldNames \ {"shorted", "unetched", "off_defect"} :
              heap[base][f] = constructed[f]
        /\ script = "call" => heap[base] = constructed
        /\ script = "main" =>
              Flags(heap[base]) =
                  CASE pc = "main_col" /\ main_i = 0 -> Flags(constructed)
                    [] pc = "main_col" /\ main_i > 0 -> column_flags(main_i - 1)
                    [] pc = "done" -> column_flags(main_columns_range - 1)
                    [] OTHER -> column_flags(main_i)

C4_Witness ==
    /\ script = "main"
    /\ pc = "gw_connect"
    /\ heap[base] # constructed
    /\ heap[base].off_defect = 1
    /\ factory_calls > main_device_count


(* Length of a segment of the test crystal, by what it is. *)
KindLength(kind, a) ==
    CASE kind = "bridge" -> a.bridge_length
      [] kind = "defect" -> a.defect_width
      [] kind = "crystal" -> a.crystal_width

RECURSIVE SumLengths(_, _)
SumLengths(c, a) ==
    IF c = <<>> THEN 0 ELSE KindLength(Head(c).kind, a) + SumLengths(Tail(c), a)

CountKind(c, kind) == Cardinality({k \in DOMAIN c : c[k].kind = kind})

Abs(n) == IF n < 0 THEN -n ELSE n

(* Distance, in doubled coordinates, between two ports on a common axis. *)
PortDistance2(a, b) == Abs(a.x - b.x) + Abs(a.y - b.y)

(* C5: for an odd crystal_count photonic_crystal builds 2*crystal_count+1   *)
(* segments connected end to end: crystal_count+1 bridges, crystal_count-1  *)
(* crystals and one defect, the defect in the middle and a bridge at both   *)
(* ends; so the derived crystal_length is the sum of the segment lengths,   *)
(* the distance between ports 1 and 2.                                      *)
C5_ChainAndLength ==
    script = "test" /\ pc \in {"t_length", "done"} =>
        LET n == targs.crystal_count
        IN  /\ Len(chain) = 2 * n + 1
            /\ CountKind(chain, "bridge") = n + 1
            /\ CountKind(chain, "crystal") = n - 1
            /\ CountKind(chain, "defect") = 1
            /\ chain[n + 1].kind = "defect"
            /\ chain[1].kind = "bridge"
            /\ chain[2 * n + 1].kind = "bridge"
            /\ \A k \in 1 .. 2 * n :
                  /\ chain[k + 1].ports["1"].x = chain[k].ports["2"].x
                  /\ chain[k + 1].ports["1"].y = chain[k].ports["2"].y
                  /\ PortDistance2(chain[k].ports["1"], chain[k].ports["2"])
                        = 2 * KindLength(chain[k].kind, targs)
            /\ chain[1].ports["1"].x = chain[2 * n + 1].ports["2"].x
            /\ pc = "done" =>
                  /\ crystal_length = SumLengths(chain, targs)
                  /\ 2 * crystal_length
                        = PortDistance2(chain[1].ports["1"], chain[2 * n + 1].ports["2"])
                  /\ crystal_length = targs.bridge_length * (n + 1)
                        + targs.crystal_width * (n - 1) + targs.defect_width

C5_Witness ==
    /\ script = "test"
    /\ pc = "done"
    /\ targs.crystal_count = 3
    /\ Len(chain) = 7
    /\ targs.bridge_length = 1
    /\ targs.crystal_width = 2
    /\ targs.defect_width = 2
    /\ crystal_length = 10

(* The devices the sweep is expected to place: device k has index k and    *)
(* defect length start + k*0.015, the first ceil(n/2) on the west side.    *)
SweptDevicesOf(placed, n, start) ==
    /\ Len(placed) = n
    /\ \A k \in 1 .. n :
          /\ placed[k].index = k - 1
          /\ placed[k].defect_length = start + (k - 1) * 15
          /\ placed[k].side = IF k - 1 < (n + 1) \div 2 THEN "W" ELSE "E"

C7_EveryPortExists ==
    IsGds /\ gw.active /\ constructed.crystal_count % 2 = 1 =>
        /\ err = "none"
        /\ pc = "gw_connect" =>
              /\ centre_port(gw.side, gw.half_device_count, gw.i) \in gw.ports
              /\ gw.half_device_count - gw.i \in 1 .. gw.half_device_count
        /\ \A k, l \in DOMAIN gw.placed : k # l => gw.placed[k].port # gw.placed[l].port
        /\ pc = "gw_return" => Len(gw.placed) = gw.device_count

(* The label expected for each combination (shorted, unetched, off_defect). *)
ExpectedLabel(f) ==
    CASE f = <<0, 0, 0>> -> "on_defect"
      [] f = <<1, 0, 0>> -> "shorted"
      [] f = <<0, 1, 0>> -> "unetched"
      [] f = <<0, 0, 1>> -> "off_defect"
      [] f = <<1, 1, 0>> -> "shorted,unetched"
      [] f = <<1, 0, 1>> -> "shorted,off_defect"
      [] f = <<0, 1, 1>> -> "unetched,off_defect"
      [] f = <<1, 1, 1>> -> "shorted,unetched,off_defect"

(* C8: the label of a cell is non-empty and is the comma-separated list of  *)
(* the set flags in the order shorted, unetched, off_defect, "on_defect"    *)
(* exactly when none is set; in main the cells of column i are labelled     *)
(* "on_defect" (i = 0, 1), "off_defect" (2, 3), "shorted" (4, 5) and        *)
(* "shorted,unetched" (6, 7), in all 8 rows.                                *)
C8_Labels ==
    /\ IsGds /\ pc = "gw_return" =>
          /\ gw.label_text = ExpectedLabel(Flags(heap[gw.device_parameters]))
          /\ gw.label_text # ""
          /\ gw.label_text = "on_defect" <=> Flags(heap[gw.device_parameters]) = <<0, 0, 0>>
    /\ script = "main" =>
          /\ \A c \in DOMAIN layout :
                LET i == (c - 1) \div 8
                    j == (c - 1) % 8
                IN  /\ layout[c].coordinates = <<i, j>>
                    /\ layout[c].label_text =
                          CASE i \in 0 .. 1 -> "on_defect"
                            [] i \in 2 .. 3 -> "off_defect"
                            [] i \in 4 .. 5 -> "shorted"
                            [] i \in 6 .. 7 -> "shorted,unetched"
          /\ pc = "done" => Len(layout) = 64

C8_Witness ==
    /\ script = "main"
    /\ pc = "done"
    /\ Len(layout) = 64
    /\ layout[1].label_text = "on_defect"
    /\ layout[17].label_text = "off_defect"
    /\ layout[64].label_text = "shorted,unetched"

(* C9: device ports 1 and 2 are total_crystal_length() apart along the      *)
(* beam; "W" lies (total_length - total_crystal_length())/2 beyond port 1   *)
(* and "E" as far beyond port 2, both moved by -external_electrode_skew     *)
(* across the beam, so "W" and "E" are total_length apart whatever the      *)
(* defect length.                                                           *)
C9_DeviceSpan ==
    IsGds /\ pc = "gw_connect" =>
        LET p == heap[params_i]
            tcl == 2 * (p.lattice_constant * p.crystal_count) + p.defect_length
            q == device.ports
        IN  /\ device.built
            /\ q["2"].x - q["1"].x = 2 * tcl
            /\ q["1"].y = q["2"].y
            /\ q["W"].x = q["1"].x - (p.total_length - tcl)
            /\ q["E"].x = q["2"].x + (p.total_length - tcl)
            /\ q["W"].y = q["1"].y - 2 * p.external_electrode_skew
            /\ q["E"].y = q["2"].y - 2 * p.external_electrode_skew
            /\ q["E"].x - q["W"].x = 2 * p.total_length
            /\ q["E"].x - q["W"].x = 2 * constructed.total_length

C9_Witness ==
    /\ script = "main"
    /\ pc = "gw_connect"
    /\ device.built
    /\ gw.i = 4
    /\ gw.side = "E"
    /\ device.defect_length = 650
    /\ device.ports["E"].x - device.ports["W"].x = 80000
    /\ device.ports["2"].x - device.ports["1"].x = 2 * 9850

===========================================================================
